---- MODULE Spec2Model ----
(***************************************************************************)
(* A model of src/src/main.rs: a batch tool that, for every ticker symbol  *)
(* on the command line, fetches one history page, extracts the table rows  *)
(* that parse as an Entry and writes them as <output-dir>/<symbol>.csv.    *)
(*                                                                         *)
(* Text is modelled as TLA+ strings; a symbol is a sequence of one         *)
(* character strings so that Path::with_extension can look for its dots.   *)
(* An HTML page is abstracted to the sequence of elements that the         *)
(* selector "tr.yf-ewueuo" matches, each element being the sequence of the *)
(* inner_html of its child elements.  A file is a sequence of lines; all   *)
(* the writes of the program are whole lines.                              *)
(***************************************************************************)
EXTENDS Integers, Sequences, FiniteSets, TLC

VARIABLES
    symbols,    \* args.symbols
    started,    \* main is past create_dir_all and has collected the futures
    output,     \* output[i]: the PathBuf handed to get_data for symbols[i]
    pc,         \* pc[i]: the await at which the future of symbols[i] is parked
    status,     \* status[i]: HTTP status of the response of send (0: none yet)
    page,       \* page[i]: the rows the selector matches in the body
    data,       \* data[i]: the String folded from the entries, as lines
    handle,     \* handle[i]: "none" or "open", the tokio File of the task
    cursor,     \* cursor[i]: write position of that File, in lines
    err,        \* err[i]: the error get_data returned, "" if none
    result,     \* what main's try_collect has resolved to
    files,      \* the output directory's files
    prior       \* the files as they were before the run (never changes)

vars == <<symbols, started, output, pc, status, page, data, handle, cursor,
          err, result, files, prior>>

(***************************************************************************)
(* Bounds of the model.                                                    *)
(***************************************************************************)
MaxSymbols == 2     \* longest symbol list of Spec
MaxRows == 3        \* most rows matched in a page of SpecRows

(***************************************************************************)
(* Text helpers.                                                           *)
(***************************************************************************)
RECURSIVE Str(_)
Str(s) == IF s = <<>> THEN "" ELSE Head(s) \o Str(Tail(s))

Max(a, b) == IF a >= b THEN a ELSE b

Ok(v) == [ok |-> TRUE, val |-> v]
Err(e) == [ok |-> FALSE, val |-> e]

HEADERS == "Date,Open,High,Low,Close,Adj Close,Volume\n"

(***************************************************************************)
(* Field parsers of Entry::from_element.  The parsers are tables over the  *)
(* cell texts the model's pages contain; every other text is a parse       *)
(* error.  A price is kept in hundredths.                                  *)
(***************************************************************************)
NaiveDate_parse_from_str(s) ==
    CASE s = "Jan 5, 2021" -> Ok([year |-> 2021, month |-> 1, day |-> 5])
      [] s = "Jan 4, 2021" -> Ok([year |-> 2021, month |-> 1, day |-> 4])
      [] OTHER -> Err("ParseError")

f64_parse(s) ==
    CASE s = "100.00" -> Ok(10000)
      [] s = "105.50" -> Ok(10550)
      [] s = "99.25"  -> Ok(9925)
      [] s = "104.00" -> Ok(10400)
      [] s = "98.50"  -> Ok(9850)
      [] s = "101.00" -> Ok(10100)
      [] s = "98.00"  -> Ok(9800)
      [] OTHER -> Err("ParseFloatError")

replace_commas(s) ==
    CASE s = "1,234,567" -> "1234567"
      [] s = "987,654" -> "987654"
      [] OTHER -> s

u64_parse(s) ==
    CASE s = "1234567" -> Ok(1234567)
      [] s = "987654" -> Ok(987654)
      [] s = "0" -> Ok(0)
      [] OTHER -> Err("ParseIntError")

\* A variant that substitutes a default for a volume that does not parse.
from_element_default_volume(row) ==
    IF Len(row) # 7 THEN Err("Failed to parse")
    ELSE LET date == NaiveDate_parse_from_str(row[1])
             open == f64_parse(row[2])
             high == f64_parse(row[3])
             low == f64_parse(row[4])
             close == f64_parse(row[5])
             adj_close == f64_parse(row[6])
             volume == u64_parse(replace_commas(row[7]))
         IN  IF ~date.ok THEN date
             ELSE IF ~open.ok THEN open
             ELSE IF ~high.ok THEN high
             ELSE IF ~low.ok THEN low
             ELSE IF ~close.ok THEN close
             ELSE IF ~adj_close.ok THEN adj_close
             ELSE Ok([date |-> date.val, open |-> open.val, high |-> high.val,
                      low |-> low.val, close |-> close.val,
                      adj_close |-> adj_close.val,
                      volume |-> IF volume.ok THEN volume.val ELSE 0])

from_element(row) ==
    IF Len(row) # 7 THEN Err("Failed to parse")
    ELSE LET date == NaiveDate_parse_from_str(row[1])
             open == f64_parse(row[2])
             high == f64_parse(row[3])
             low == f64_parse(row[4])
             close == f64_parse(row[5])
             adj_close == f64_parse(row[6])
             volume == u64_parse(replace_commas(row[7]))
         IN  IF ~date.ok THEN date
             ELSE IF ~open.ok THEN open
             ELSE IF ~high.ok THEN high
             ELSE IF ~low.ok THEN low
             ELSE IF ~close.ok THEN close
             ELSE IF ~adj_close.ok THEN adj_close
             ELSE IF ~volume.ok THEN volume
             ELSE Ok([date |-> date.val, open |-> open.val, high |-> high.val,
                      low |-> low.val, close |-> close.val,
                      adj_close |-> adj_close.val, volume |-> volume.val])

(***************************************************************************)
(* Display of an Entry.                                                    *)
(***************************************************************************)
Pad2(n) == IF n < 10 THEN "0" \o ToString(n) ELSE ToString(n)

NaiveDate_fmt(d) == ToString(d.year) \o "-" \o Pad2(d.month) \o "-" \o Pad2(d.day)

\* Display of an f64 prints the shortest text that reads back as the value.
f64_fmt(v) ==
    LET whole == v \div 100
        frac == v % 100
    IN  IF frac = 0 THEN ToString(whole)
        ELSE IF frac % 10 = 0 THEN ToString(whole) \o "." \o ToString(frac \div 10)
        ELSE ToString(whole) \o "." \o Pad2(frac)

to_string(e) ==
    NaiveDate_fmt(e.date) \o "," \o f64_fmt(e.open) \o "," \o f64_fmt(e.high)
        \o "," \o f64_fmt(e.low) \o "," \o f64_fmt(e.close) \o ","
        \o f64_fmt(e.adj_close) \o "," \o ToString(e.volume)

(***************************************************************************)
(* The extraction of get_data:                                             *)
(*   select(..).skip(1).flat_map(Entry::from_element)                      *)
(*             .map(to_string).fold(String, push_str + '\n')               *)
(***************************************************************************)
\* A variant that keeps the first matching row.
skip_none(rows) == rows

skip_first(rows) == SubSeq(rows, 2, Len(rows))

\* flat_map over a Result: an Ok yields its value, an Err yields nothing.
RECURSIVE flat_map_from_element(_)
flat_map_from_element(rows) ==
    IF rows = <<>> THEN <<>>
    ELSE LET r == from_element(Head(rows))
         IN  (IF r.ok THEN <<r.val>> ELSE <<>>)
                 \o flat_map_from_element(Tail(rows))

RECURSIVE fold_lines(_, _)
fold_lines(acc, xs) ==
    IF xs = <<>> THEN acc
    ELSE fold_lines(Append(acc, Head(xs) \o "\n"), Tail(xs))

extract(rows) ==
    LET entries == flat_map_from_element(skip_first(rows))
        texts == [k \in 1..Len(entries) |-> to_string(entries[k])]
    IN  fold_lines(<<>>, texts)

(***************************************************************************)
(* Paths: output_dir.join(symbol).with_extension("csv").  A symbol is one  *)
(* normal path component (no separator, not empty, not "." or "..").       *)
(***************************************************************************)
OutputDir == "out"

Dots(name) == {k \in 1..Len(name) : name[k] = "."}

LastDot(name) == CHOOSE k \in Dots(name) : \A j \in Dots(name) : j <= k

\* Path::file_stem: the name up to its last dot; the whole name when it has
\* no dot or only a leading one.
file_stem(name) ==
    IF Dots(name) = {} \/ LastDot(name) = 1 THEN name
    ELSE SubSeq(name, 1, LastDot(name) - 1)

with_extension(name, ext) == Str(file_stem(name)) \o "." \o ext

join(dir, name) == dir \o "/" \o name

OutputPath(symbol) == join(OutputDir, with_extension(symbol, "csv"))

(***************************************************************************)
(* The inputs: symbols, responses and the prior state of the directory.    *)
(***************************************************************************)
AAPL == <<"A", "A", "P", "L">>
BRK_A == <<"B", "R", "K", ".", "A">>
BRK_B == <<"B", "R", "K", ".", "B">>
SymbolSet == {AAPL, BRK_A, BRK_B}

RECURSIVE SeqsUpTo(_, _)
SeqsUpTo(S, n) ==
    IF n = 0 THEN {<<>>}
    ELSE LET shorter == SeqsUpTo(S, n - 1)
         IN  shorter \cup {Append(s, x) : s \in shorter, x \in S}

Paths == {OutputPath(s) : s \in SymbolSet}

HttpStatuses == {200, 404}

R_head == <<"Date", "Open", "High", "Low", "Close", "Adj Close", "Volume">>
R_ok1 == <<"Jan 5, 2021", "100.00", "105.50", "99.25", "104.00", "104.00", "1,234,567">>
R_ok2 == <<"Jan 4, 2021", "98.50", "101.00", "98.00", "100.00", "100.00", "987,654">>
R_dividend == <<"Jan 4, 2021", "0.22 Dividend">>
R_long == R_ok1 \o <<"extra">>
R_bad_date == [R_ok1 EXCEPT ![1] = "2021-01-05"]
R_bad_price == {[R_ok2 EXCEPT ![k] = "1,234.56"] : k \in 2..6}
R_bad_volume == [R_ok2 EXCEPT ![7] = "-"]

Rows == {R_head, R_ok1, R_ok2, R_dividend, R_long, R_bad_date, R_bad_volume}
            \cup R_bad_price

\* The pages of SpecRows: every sequence of at most MaxRows rows.
AllPages == SeqsUpTo(Rows, MaxRows)

\* The pages of Spec, where several tasks run: no row, and a table of one
\* entry under its header row.
FewPages == {<<>>, <<R_head, R_ok1>>}

NoFile == [exists |-> FALSE, content |-> <<>>]
Stale == [exists |-> TRUE, content |-> <<"old header\n", "old 1\n", "old 2\n", "old 3\n">>]

\* A gap that a write past the end of a file leaves, read back as zeros.
Hole == "<zeros>"

(***************************************************************************)
(* A write of `lines` through a handle positioned at line `off`.  The file *)
(* is opened without append, so each handle writes at its own position.    *)
(* write_all of an empty buffer does nothing.                              *)
(***************************************************************************)
write_at(content, off, lines) ==
    IF lines = <<>> THEN content
    ELSE LET padded == content \o [k \in 1..(off - Len(content)) |-> Hole]
             len == Max(Len(padded), off + Len(lines))
         IN  [k \in 1..len |->
                 IF k > off /\ k <= off + Len(lines) THEN lines[k - off]
                 ELSE padded[k]]

(***************************************************************************)
(* The order of the awaits of get_data.                                    *)
(***************************************************************************)
\* A variant that opens the file and writes the header before the body of
\* the response has been read.
next_await_open_early(p) ==
    CASE p = "send" -> "open"
      [] p = "open" -> "write_headers"
      [] p = "write_headers" -> "text"
      [] p = "text" -> "write_data"
      [] p = "write_data" -> "ok"

next_await(p) ==
    CASE p = "send" -> "text"
      [] p = "text" -> "open"
      [] p = "open" -> "write_headers"
      [] p = "write_headers" -> "write_data"
      [] p = "write_data" -> "ok"

(***************************************************************************)
(* main's FuturesUnordered + try_collect, seen after a poll of the futures *)
(* whose states are pcs: an Err of a future resolves it at once, and it is *)
(* Ok when every future has returned Ok.                                   *)
(***************************************************************************)
Pending == [kind |-> "Pending", task |-> 0, error |-> ""]
Success == [kind |-> "Ok", task |-> 0, error |-> ""]
Failure(i, e) == [kind |-> "Err", task |-> i, error |-> e]

\* A variant that waits for every future before it reports an error.
try_collect_join_all(pcs, errs) ==
    LET failed == {i \in DOMAIN pcs : pcs[i] = "err"}
    IN  IF \E i \in DOMAIN pcs : pcs[i] \notin {"ok", "err"} THEN Pending
        ELSE IF failed # {}
             THEN LET i == CHOOSE j \in failed : TRUE IN Failure(i, errs[i])
             ELSE Success

\* A variant that collects the results without looking at them.
try_collect_ignore_errors(pcs, errs) ==
    IF \A i \in DOMAIN pcs : pcs[i] \in {"ok", "err"} THEN Success ELSE Pending

try_collect(pcs, errs) ==
    LET failed == {i \in DOMAIN pcs : pcs[i] = "err"}
    IN  IF failed # {}
        THEN LET i == CHOOSE j \in failed : TRUE IN Failure(i, errs[i])
        ELSE IF \A i \in DOMAIN pcs : pcs[i] = "ok" THEN Success
        ELSE Pending

(***************************************************************************)
(* The state machine.                                                      *)
(***************************************************************************)
Tasks == 1..Len(symbols)

InitWith(lists, priors) ==
    /\ symbols \in lists
    /\ prior \in priors
    /\ files = prior
    /\ started = FALSE
    /\ output = [i \in Tasks |-> ""]
    /\ pc = [i \in Tasks |-> "new"]
    /\ status = [i \in Tasks |-> 0]
    /\ page = [i \in Tasks |-> <<>>]
    /\ data = [i \in Tasks |-> <<>>]
    /\ handle = [i \in Tasks |-> "none"]
    /\ cursor = [i \in Tasks |-> 0]
    /\ err = [i \in Tasks |-> ""]
    /\ result = Pending

Init == InitWith(SeqsUpTo(SymbolSet, MaxSymbols), [Paths -> {NoFile, Stale}])

InitRows == InitWith({<<AAPL>>}, {[p \in Paths |-> NoFile]})

\* main up to the first poll of try_collect: create_dir_all, then one
\* get_data future per symbol, each with its output path.
CreateDirAll ==
    /\ ~started
    /\ result = Pending
    /\ \/ /\ started' = TRUE
          /\ output' = [i \in Tasks |-> OutputPath(symbols[i])]
          /\ pc' = [i \in Tasks |-> "send"]
          /\ result' = try_collect(pc', err)
       \/ /\ result' = Failure(0, "IoError")
          /\ UNCHANGED <<started, output, pc>>
    /\ UNCHANGED <<symbols, status, page, data, handle, cursor, err, files, prior>>

Polled(i) == started /\ result = Pending /\ i \in Tasks

\* The future of task i gets past its await.
Advance(i) ==
    /\ pc' = [pc EXCEPT ![i] = next_await(pc[i])]
    /\ err' = err
    /\ result' = try_collect(pc', err')

\* The future of task i returns Err(e) through a `?`.
Fail(i, e) ==
    /\ pc' = [pc EXCEPT ![i] = "err"]
    /\ err' = [err EXCEPT ![i] = e]
    /\ result' = try_collect(pc', err')

\* send().await?: a response of any status is Ok; Err is a transport error.
Send(i) ==
    /\ Polled(i)
    /\ pc[i] = "send"
    /\ \/ \E s \in HttpStatuses :
              /\ status' = [status EXCEPT ![i] = s]
              /\ Advance(i)
       \/ /\ Fail(i, "FetchError")
          /\ UNCHANGED status
    /\ UNCHANGED <<symbols, started, output, page, data, handle, cursor, files, prior>>

\* text().await?, then the parse and the extraction, which do not await.
Text(i, pages) ==
    /\ Polled(i)
    /\ pc[i] = "text"
    /\ \/ \E p \in pages :
              /\ page' = [page EXCEPT ![i] = p]
              /\ data' = [data EXCEPT ![i] = extract(p)]
              /\ Advance(i)
       \/ /\ Fail(i, "FetchError")
          /\ UNCHANGED <<page, data>>
    /\ UNCHANGED <<symbols, started, output, status, handle, cursor, files, prior>>

RecvText(i) == Text(i, FewPages)

RecvTextRows(i) == Text(i, AllPages)

\* OpenOptions create + truncate + write, open().await?
Open(i) ==
    /\ Polled(i)
    /\ pc[i] = "open"
    /\ \/ /\ files' = [files EXCEPT ![output[i]] = [exists |-> TRUE, content |-> <<>>]]
          /\ handle' = [handle EXCEPT ![i] = "open"]
          /\ Advance(i)
       \/ /\ Fail(i, "IoError")
          /\ UNCHANGED <<files, handle>>
    /\ UNCHANGED <<symbols, started, output, status, page, data, cursor, prior>>

\* file.write_all(HEADERS).await?
WriteHeaders(i) ==
    /\ Polled(i)
    /\ pc[i] = "write_headers"
    /\ \/ /\ files' = [files EXCEPT ![output[i]].content = write_at(@, cursor[i], <<HEADERS>>)]
          /\ cursor' = [cursor EXCEPT ![i] = @ + 1]
          /\ Advance(i)
       \/ /\ Fail(i, "IoError")
          /\ UNCHANGED <<files, cursor>>
    /\ UNCHANGED <<symbols, started, output, status, page, data, handle, prior>>

\* file.write_all(data.as_bytes()).await?, then Ok(()).  A failing write_all
\* may have written a part of the buffer.
WriteData(i) ==
    /\ Polled(i)
    /\ pc[i] = "write_data"
    /\ \/ /\ files' = [files EXCEPT ![output[i]].content = write_at(@, cursor[i], data[i])]
          /\ cursor' = [cursor EXCEPT ![i] = @ + Len(data[i])]
          /\ Advance(i)
       \/ \E k \in 0..(Len(data[i]) - 1) :
              /\ files' = [files EXCEPT ![output[i]].content =
                               write_at(@, cursor[i], SubSeq(data[i], 1, k))]
              /\ cursor' = [cursor EXCEPT ![i] = @ + k]
              /\ Fail(i, "IoError")
    /\ UNCHANGED <<symbols, started, output, status, page, data, handle, prior>>

Step(i) == Send(i) \/ RecvText(i) \/ RecvTextRows(i) \/ Open(i) \/ WriteHeaders(i) \/ WriteData(i)

Next ==
    \/ CreateDirAll
    \/ \E i \in Tasks : Send(i)
    \/ \E i \in Tasks : RecvText(i)
    \/ \E i \in Tasks : Open(i)
    \/ \E i \in Tasks : WriteHeaders(i)
    \/ \E i \in Tasks : WriteData(i)

NextRows ==
    \/ CreateDirAll
    \/ \E i \in Tasks : Send(i)
    \/ \E i \in Tasks : RecvTextRows(i)
    \/ \E i \in Tasks : Open(i)
    \/ \E i \in Tasks : WriteHeaders(i)
    \/ \E i \in Tasks : WriteData(i)

\* The exit status of the process for what main returns.
ExitCode(r) == IF r.kind = "Ok" THEN 0 ELSE 1

\* Several symbols, pages of FewPages.
Spec == Init /\ [][Next]_vars

\* One symbol, every page of at most MaxRows rows.
SpecRows == InitRows /\ [][NextRows]_vars

(***************************************************************************)
(* Vocabulary of the properties.                                           *)
(***************************************************************************)
Finished(i) == pc[i] \in {"ok", "err"}

IoFailed(i) == pc[i] = "err" /\ err[i] = "IoError"

FetchFailed(i) == pc[i] = "err" /\ err[i] = "FetchError"

\* The task has its page: the body was read and the extraction has run.
Extracted(i) == pc[i] \in {"open", "write_headers", "write_data", "ok"} \/ IoFailed(i)

\* No other task was given the same symbol.
OnlyOnce(i) == \A j \in Tasks \ {i} : symbols[j] # symbols[i]

\* The rows of the model that are well formed, and the line each is to give
\* (written out, not computed by the model's parsers and formatters).
WellFormed(r) == r \in {R_ok1, R_ok2}

LineOf(r) ==
    IF r = R_ok1 THEN "2021-01-05,100,105.5,99.25,104,104,1234567\n"
    ELSE "2021-01-04,98.5,101,98,100,100,987654\n"

LinesOf(rows) == [k \in 1..Len(rows) |-> LineOf(rows[k])]

(***************************************************************************)
(* C1: the overall result fails as soon as one task fails, with the error  *)
(* of that task (the first failure), without waiting for the other tasks:  *)
(* in every state where a task has returned an error, main's result is     *)
(* already the failure of exactly that task.                               *)
(***************************************************************************)
C1_FailFast ==
    \A i \in Tasks : pc[i] = "err" => result = Failure(i, err[i])

\* A task has failed while another one is still parked at an await.
C1_Witness ==
    \E i, j \in Tasks : pc[i] = "err" /\ ~Finished(j) /\ result.kind = "Err"

(***************************************************************************)
(* C2: the run ends with status 0 only if every symbol's task has done its *)
(* fetch, its extraction and its file write without error; a task that     *)
(* returned an error makes the run end with a non-zero status.             *)
(***************************************************************************)
C2_SuccessOnlyIfAllSucceed ==
    /\ (result.kind # "Pending" /\ ExitCode(result) = 0) =>
           \A i \in Tasks :
               /\ pc[i] = "ok"
               /\ err[i] = ""
               /\ status[i] # 0
               /\ handle[i] = "open"
               /\ cursor[i] = 1 + Len(data[i])
    /\ (\E i \in Tasks : pc[i] = "err") =>
           (result.kind = "Err" /\ ExitCode(result) # 0)

\* A run of two tasks has ended with success.
C2_Witness ==
    /\ Len(symbols) >= 2
    /\ result.kind = "Ok"
    /\ \A i \in Tasks : pc[i] = "ok"

(***************************************************************************)
(* C3: a response with a non-success HTTP status is a FetchError: the task *)
(* fails, nothing is derived from the body and the run fails because of    *)
(* that symbol.                                                            *)
(***************************************************************************)
C3_NonSuccessStatusFails ==
    \A i \in Tasks :
        (status[i] # 0 /\ status[i] \notin 200..299) =>
            /\ FetchFailed(i)
            /\ result = Failure(i, "FetchError")
            /\ handle[i] = "none"

(***************************************************************************)
(* C4: the output path of every symbol is <output-dir>/<symbol>.csv, the   *)
(* whole symbol followed by .csv, also for a symbol with a dot in it.      *)
(***************************************************************************)
C4_PathIsSymbolDotCsv ==
    \A i \in Tasks :
        started => output[i] = OutputDir \o "/" \o Str(symbols[i]) \o ".csv"

(***************************************************************************)
(* C5: no two tasks ever open or write the same output file.  Stated here  *)
(* for the tasks of two different symbols, where the claim fails already.  *)
(***************************************************************************)
C5_NoTwoTasksOnOneFile ==
    \A i, j \in Tasks :
        (symbols[i] # symbols[j] /\ handle[i] = "open" /\ handle[j] = "open")
            => output[i] # output[j]

(***************************************************************************)
(* C6: after a task has succeeded, its output file is the header line      *)
(* followed by the lines of its entries, in order, and nothing else,       *)
(* whatever the file held before.  Stated here for a symbol that is listed *)
(* once, where the claim fails already.                                    *)
(***************************************************************************)
C6_FileIsHeaderThenData ==
    \A i \in Tasks :
        (pc[i] = "ok" /\ OnlyOnce(i)) =>
            files[output[i]] = [exists |-> TRUE, content |-> <<HEADERS>> \o data[i]]

(***************************************************************************)
(* C7: a row without exactly seven cells, or with a cell that fails its    *)
(* parse, gives no entry and no part of one, and does not fail the task:   *)
(* the output is exactly the lines of the well-formed rows after the first *)
(* row, in document order, and a task that has its page has not failed on  *)
(* it.                                                                     *)
(***************************************************************************)
C7_BadRowsDroppedLocally ==
    \A i \in Tasks :
        /\ Extracted(i) =>
               data[i] = LinesOf(SelectSeq(SubSeq(page[i], 2, Len(page[i])), WellFormed))
        /\ FetchFailed(i) => page[i] = <<>>

\* A page whose rows after the first hold a malformed row between two
\* well-formed ones has been extracted.
C7_Witness ==
    \E i \in Tasks :
        /\ Extracted(i)
        /\ Len(page[i]) = 3
        /\ page[i][2] = R_ok2
        /\ ~WellFormed(page[i][3])
        /\ Len(data[i]) = 1

(***************************************************************************)
(* C8: exactly the first matching row is left out whatever it holds, and   *)
(* no other row that parses: the output has one line for each well-formed  *)
(* row among the second and later rows.                                    *)
(***************************************************************************)
C8_ExactlyFirstRowSkipped ==
    \A i \in Tasks :
        Extracted(i) =>
            Len(data[i]) = Cardinality({k \in 2..Len(page[i]) : WellFormed(page[i][k])})

\* The first row is a well-formed row, and the second one too.
C8_Witness ==
    \E i \in Tasks :
        /\ Extracted(i)
        /\ Len(page[i]) = 2
        /\ WellFormed(page[i][1])
        /\ WellFormed(page[i][2])
        /\ Len(data[i]) = 1

(***************************************************************************)
(* C9 as claimed: an IoError of one task aborts only that task, a task of  *)
(* another symbol that has not finished can still take a step.             *)
(***************************************************************************)
C9_OthersNotAborted ==
    \A i, j \in Tasks :
        (IoFailed(i) /\ j # i /\ ~Finished(j)) => ENABLED Step(j)

(***************************************************************************)
(* C9 as amended: a failure to open or write a symbol's file is the        *)
(* IoError of that symbol's task, it is main's result at once, and no task *)
(* of any symbol takes a step after it: the unfinished ones are abandoned. *)
(***************************************************************************)
C9_IoErrorEndsRun ==
    \A i \in Tasks :
        IoFailed(i) =>
            /\ result = Failure(i, "IoError")
            /\ \A j \in Tasks : ~ENABLED Step(j)

\* A task has failed on its file while another one has not finished.
C9_Witness ==
    \E i, j \in Tasks : IoFailed(i) /\ j # i /\ ~Finished(j)

(***************************************************************************)
(* C10: the steps of a task are ordered fetch, extraction, open, header,   *)
(* data.  A task whose fetch failed, or that has not got its body yet (and *)
(* may have been abandoned there), has no file handle and has written      *)
(* nothing, and its file is as before the run unless another task opened   *)
(* that path.                                                              *)
(***************************************************************************)
C10_NoFileBeforeFetch ==
    \A i \in Tasks :
        /\ (pc[i] \in {"new", "send", "text"} \/ FetchFailed(i)) =>
               /\ handle[i] = "none"
               /\ cursor[i] = 0
               /\ (started /\ \A j \in Tasks : output[j] = output[i] => handle[j] = "none")
                      => files[output[i]] = prior[output[i]]
        /\ handle[i] = "open" => (status[i] # 0 /\ pc[i] \notin {"new", "send", "text", "open"})
        /\ cursor[i] > 0 => (handle[i] = "open" /\ pc[i] \notin {"write_headers"})
        /\ cursor[i] > 1 => Finished(i)

\* One task's fetch has failed, another task was abandoned before its body
\* arrived, and both have an old file.
C10_Witness ==
    \E i, j \in Tasks :
        /\ FetchFailed(i)
        /\ pc[j] \in {"send", "text"}
        /\ prior[output[i]] = Stale
        /\ prior[output[j]] = Stale
        /\ files[output[i]] = Stale
        /\ files[output[j]] = Stale
====
